---- MODULE Spec2Model ----
(***************************************************************************)
(* A state-machine model of perf_stats.py: the PerfStats recorder (a       *)
(* process-wide singleton guarded by one lock) and the PerfTimer context   *)
(* manager, as called by several threads.                                  *)
(*                                                                         *)
(* Each thread is at a position pc[t] inside one method; every statement   *)
(* that reads or writes shared state is a step of its own where another    *)
(* thread can run in between (a `with self._lock:` block is entered by an  *)
(* acquire step and left by the step that ends its body).                  *)
(*                                                                         *)
(* Durations and clock readings are integers (clock ticks); a mean is an   *)
(* exact fraction <<numerator, denominator>> in lowest terms: the rounding *)
(* of floating-point arithmetic is not modelled.                           *)
(***************************************************************************)
EXTENDS Integers, Sequences, FiniteSets, TLC

\* ---------------------------------------------------------------- bounds
MaxClock == 1           \* time.perf_counter() takes the values 0..MaxClock
MaxSamples == 2         \* samples the callers submit in one behaviour
MaxPending == 2         \* distinct start keys pending (stored or about to be) at one time
ScopesPerThread == 2    \* PerfTimer scopes each worker thread runs (100 in the test)
MaxLen == 4             \* longest list of samples the statistics are checked on
MaxScopes == 2          \* PerfTimer scopes entered in one behaviour of the scopes' specification
TicksPerSecond == 8     \* the clock's resolution in the report: ticks in one second

\* ------------------------------------------------------------ the callers
Threads == {"t1", "t2"}                 \* threading.get_ident() of each thread
None == "None"                          \* Python's None
Labels == {<<"A", "x">>, <<"", "y">>}   \* (category, tag) pairs the callers record under
Cats == {b[1] : b \in Labels}           \* categories passed to get_stats
Values == {2}                           \* elapsed_seconds passed to record_value
StatValues == {0, 1, 3}                 \* the samples the statistics are checked on
ThreadLabel == <<"A", "x">>             \* the workers' ("ThreadCat", "ThreadTag")
NoKey == "nokey"                        \* a string start_record never returns
EmptyMap == [k \in {} |-> 0]            \* an empty dict

VARIABLES
    enabled,        \* self._enabled
    data,           \* self._data: (category, tag) -> list of samples
    start_times,    \* self._start_times: key -> start instant
    lock,           \* self._lock: the thread holding it, or None
    clock,          \* the value time.perf_counter() returns now
    pc,             \* pc[t]: where thread t is
    loc,            \* loc[t]: the arguments and locals of t's current call
    instance,       \* PerfStats._instance: None, or the one object
    initialized,    \* the object's _initialized: "unset", "false" or "true"
    cls_lock        \* PerfStats._lock: the thread holding it, or None

vars == <<enabled, data, start_times, lock, clock, pc, loc, instance, initialized, cls_lock>>

ctor == <<instance, initialized, cls_lock>>

\* ------------------------------------------------------- dicts and lists
Get(f, k, default) == IF k \in DOMAIN f THEN f[k] ELSE default

Put(f, k, v) == [x \in DOMAIN f \cup {k} |-> IF x = k THEN v ELSE f[x]]

Pop(f, k) == [x \in DOMAIN f \ {k} |-> f[x]]

RECURSIVE SumSeq(_)
SumSeq(s) == IF s = <<>> THEN 0 ELSE Head(s) + SumSeq(Tail(s))

RECURSIVE SumAll(_, _)
SumAll(f, ks) ==
    IF ks = {} THEN 0
    ELSE LET k == CHOOSE x \in ks : TRUE IN f[k] + SumAll(f, ks \ {k})

MinOf(s) == CHOOSE m \in {s[i] : i \in DOMAIN s} : \A i \in DOMAIN s : m <= s[i]

MaxOf(s) == CHOOSE m \in {s[i] : i \in DOMAIN s} : \A i \in DOMAIN s : m >= s[i]

\* a list growing at its front
AppendSample_Front(d, b, v) == Put(d, b, <<v>> \o Get(d, b, <<>>))

\* self._data[category][tag].append(v): the defaultdicts create the bucket
AppendSample(d, b, v) == Put(d, b, Append(Get(d, b, <<>>), v))

TotalSamples(d) == SumAll([b \in DOMAIN d |-> Len(d[b])], DOMAIN d)

\* a key without the thread ident
FormatKey_NoThread(b, t, now) == b[1] \o "::" \o b[2] \o "::" \o ToString(now)

\* f"{category}::{tag}::{threading.get_ident()}::{time.perf_counter()}"
FormatKey(b, t, now) == b[1] \o "::" \o b[2] \o "::" \o t \o "::" \o ToString(now)

\* Python truthiness of a key or category argument: None and "" are falsy
Truthy(s) == s # None /\ s # ""

\* ------------------------------------------------------------- statistics
Abs(n) == IF n < 0 THEN -n ELSE n

RECURSIVE GCD(_, _)
GCD(a, b) == IF b = 0 THEN a ELSE GCD(b, a % b)

\* Python's n / d (d > 0) as an exact fraction in lowest terms
Div(n, d) == LET g == GCD(Abs(n), d) IN <<n \div g, d \div g>>

\* statistics that trim only from the fourth sample on
BucketStats_Late(values) ==
    LET count == Len(values)
        total == SumSeq(values)
    IN  [count |-> count, min |-> MinOf(values), max |-> MaxOf(values),
         avg_filtered |-> IF count > 3
                          THEN Div(total - MinOf(values) - MaxOf(values), count - 2)
                          ELSE Div(total, count),
         avg_raw |-> Div(total, count)]

\* lines 121-140: the statistics of one non-empty list of samples
BucketStats(values) ==
    LET count == Len(values)
        min_val == MinOf(values)
        max_val == MaxOf(values)
        total == SumSeq(values)
        avg_val == IF count > 2
                   THEN Div(total - min_val - max_val, count - 2)
                   ELSE Div(total, count)
    IN  [count |-> count, min |-> min_val, max |-> max_val,
         avg_filtered |-> avg_val, avg_raw |-> Div(total, count)]

\* the categories of a snapshot, and the tags of one of them
SnapCats(snapshot) == {b[1] : b \in DOMAIN snapshot}

SnapTags(snapshot, cat) == {b[2] : b \in {x \in DOMAIN snapshot : x[1] = cat}}

\* lines 108-143: the mapping get_stats(category) returns for a snapshot
GetStatsResult(snapshot, category) ==
    LET target_categories == IF Truthy(category) THEN {category}
                             ELSE SnapCats(snapshot)
        cat_result(cat) ==
            [tag \in {g \in SnapTags(snapshot, cat) : snapshot[<<cat, g>>] # <<>>}
                |-> BucketStats(snapshot[<<cat, tag>>])]
        result == [cat \in target_categories \cap SnapCats(snapshot) |-> cat_result(cat)]
    IN  IF ~Truthy(category) THEN result ELSE Get(result, category, EmptyMap)

\* ------------------------------------------------------------ call frames
\* op: the method; b: the (category, tag) labels; key, end_time: locals;
\* snap: get_stats' snapshot; ret: the value returned; scope: inside a
\* PerfTimer; i: the with-statements the thread has entered (the worker
\* loop's counter in test_multithread_safety); self: the recorder handle the
\* thread holds; exc: the body of the PerfTimer scope has raised; outer: the
\* <<labels, key>> of the enclosing PerfTimer of a nested one, or <<>>
\* token: the key or None start_record returned; ret: the mapping get_stats
\* returned; text: the report returned or written
Frame == [op |-> None, b |-> <<>>, key |-> None, end_time |-> 0,
          snap |-> EmptyMap, arg |-> None, ret |-> EmptyMap, scope |-> FALSE, i |-> 0,
          self |-> "obj", exc |-> FALSE, outer |-> <<>>, token |-> None, text |-> ""]

Call(t, f) == loc' = [loc EXCEPT ![t] = f]

Goto(t, l) == pc' = [pc EXCEPT ![t] = l]

Acquire(t) == lock = None /\ lock' = t

\* the frame of an idle thread: what survives a call is the worker's loop
\* counter and the handle
Rest(t) == [Frame EXCEPT !.i = loc[t].i, !.self = loc[t].self]

\* where end_record returns to. A plain call returns to its caller. The
\* __exit__ of a PerfTimer returns None, so an exception of the body goes on:
\* into the body of the enclosing scope, which it leaves in turn, or to the
\* caller of the with statement; without exception the enclosing body, or
\* the caller, continues.
Leave(t) ==
    IF ~loc[t].scope THEN "idle"
    ELSE IF loc[t].outer # <<>> THEN (IF loc[t].exc THEN "pt_raised" ELSE "pt_body")
    ELSE IF loc[t].exc THEN "raised" ELSE "idle"

\* the frame end_record returns to: that of the enclosing scope, or none
Back(t) ==
    IF loc[t].scope /\ loc[t].outer # <<>>
    THEN [Rest(t) EXCEPT !.scope = TRUE, !.op = "start_record",
                         !.b = loc[t].outer[1], !.key = loc[t].outer[2],
                         !.token = loc[t].outer[2], !.exc = loc[t].exc]
    ELSE Rest(t)

\* a thread can call a method once it holds a handle
Idle(t) == pc[t] = "idle" /\ loc[t].self # None

\* leaving the with block releases the lock object the thread acquired
Release(t) == lock' = IF lock = t THEN None ELSE lock

\* calls still to append a sample / store a key (bounds the model)
Submitting == {t \in Threads : \/ pc[t] \in {"rv_lock", "rv_body", "er_lock", "er_body"}
                                \/ loc[t].scope}

Starting == {t \in Threads : pc[t] \in {"sr_lock", "sr_body"}}

MaySubmit == TotalSamples(data) + Cardinality(Submitting) < MaxSamples

MayStart(t, b) ==
    Cardinality(DOMAIN start_times \cup {loc[u].key : u \in Starting}
                \cup {FormatKey(b, t, clock)}) <= MaxPending

\* with statements entered so far (bounds the model)
ScopesEntered == SumAll([t \in Threads |-> loc[t].i], Threads)

MayEnter == ScopesEntered < MaxScopes

\* the keys a caller can pass to end_record: any string start_record can
\* build, a string it cannot, or nothing
AllKeys == {FormatKey(b, t, now) : b \in Labels, t \in Threads, now \in 0..MaxClock}

KeyArgs == AllKeys \cup {None, NoKey}

\* the state once the first PerfStats() has returned (__new__ and __init__)
Init ==
    /\ enabled = TRUE
    /\ data = EmptyMap
    /\ start_times = EmptyMap
    /\ lock = None
    /\ clock = 0
    /\ pc = [t \in Threads |-> "idle"]
    /\ loc = [t \in Threads |-> Frame]
    /\ instance = "obj"
    /\ initialized = "true"
    /\ cls_lock = None

\* the monotonic clock advances
Tick ==
    /\ clock < MaxClock
    /\ clock' = clock + 1
    /\ UNCHANGED <<enabled, data, start_times, lock, pc, loc, ctor>>

\* the caller has the value start_record or get_stats returned (loc[t].token,
\* loc[t].ret);
\* the thread is free for its next call. A method that returns nothing
\* leaves the thread idle at once.
Return(t) ==
    /\ pc[t] = "done"
    /\ Goto(t, "idle")
    /\ Call(t, Rest(t))
    /\ UNCHANGED <<enabled, data, start_times, lock, clock, ctor>>

\* ------------------------------------------------------ enable / disable
\* line 39
Enable(t) ==
    /\ Idle(t)
    /\ enabled' = TRUE
    /\ UNCHANGED <<data, start_times, lock, clock, pc, loc, ctor>>

\* disable that also forgets the pending starts
Disable_Reset(t) ==
    /\ Idle(t)
    /\ enabled' = FALSE
    /\ start_times' = EmptyMap
    /\ UNCHANGED <<data, lock, clock, pc, loc, ctor>>

\* line 43
Disable(t) ==
    /\ Idle(t)
    /\ enabled' = FALSE
    /\ UNCHANGED <<data, start_times, lock, clock, pc, loc, ctor>>

\* ----------------------------------------------------------- start_record
\* start_record without the enabled test
StartCheck_NoTest(t, b, f) ==
    /\ Goto(t, "sr_lock")
    /\ Call(t, [f EXCEPT !.op = "start_record", !.b = b,
                         !.key = FormatKey(b, t, clock)])
    /\ UNCHANGED <<enabled, data, start_times, lock, clock, ctor>>

\* lines 60-63: the enabled test, then the key from the labels, the thread
\* and a first clock reading. f is the caller's frame (plain call or PerfTimer).
StartCheck(t, b, f) ==
    /\ IF ~enabled
       THEN /\ Goto(t, IF f.scope THEN "pt_body" ELSE "done")
            /\ Call(t, [f EXCEPT !.op = "start_record", !.b = b])
       ELSE /\ Goto(t, "sr_lock")
            /\ Call(t, [f EXCEPT !.op = "start_record", !.b = b,
                                 !.key = FormatKey(b, t, clock)])
    /\ UNCHANGED <<enabled, data, start_times, lock, clock, ctor>>

SR_Check(t, b) ==
    /\ Idle(t)
    /\ StartCheck(t, b, Rest(t))

\* line 64
SR_Acquire(t) ==
    /\ pc[t] = "sr_lock"
    /\ Acquire(t)
    /\ Goto(t, "sr_body")
    /\ UNCHANGED <<enabled, data, start_times, clock, loc, ctor>>

\* lines 65-66: store a second clock reading under the key, release, return
SR_Store(t) ==
    /\ pc[t] = "sr_body"
    /\ start_times' = Put(start_times, loc[t].key, clock)
    /\ Release(t)
    /\ Goto(t, IF loc[t].scope THEN "pt_body" ELSE "done")
    /\ Call(t, [loc[t] EXCEPT !.token = loc[t].key])
    /\ UNCHANGED <<enabled, data, clock, ctor>>

\* ------------------------------------------------------------- end_record
\* lines 75-78: the enabled test and the clock reading
EndCheck(t) ==
    /\ IF ~enabled
       THEN /\ Goto(t, Leave(t))
            /\ Call(t, Back(t))
       ELSE /\ Goto(t, "er_lock")
            /\ Call(t, [loc[t] EXCEPT !.op = "end_record", !.token = None,
                                      !.end_time = clock])
    /\ UNCHANGED <<enabled, data, start_times, lock, clock, ctor>>

ER_Check(t) ==
    /\ Idle(t)
    /\ EndCheck(t)

\* line 80
ER_Acquire(t) ==
    /\ pc[t] = "er_lock"
    /\ Acquire(t)
    /\ Goto(t, "er_body")
    /\ UNCHANGED <<enabled, data, start_times, clock, loc, ctor>>

\* end_record that, given no pending key, falls back on a pending start
EndBody_Fallback(t, b, k) ==
    /\ IF start_times # EmptyMap
       THEN LET j == IF Truthy(k) /\ k \in DOMAIN start_times THEN k
                     ELSE CHOOSE x \in DOMAIN start_times : TRUE
            IN  /\ start_times' = Pop(start_times, j)
                /\ data' = AppendSample(data, b, loc[t].end_time - start_times[j])
       ELSE UNCHANGED <<start_times, data>>
    /\ Release(t)
    /\ Goto(t, Leave(t))
    /\ Call(t, Back(t))
    /\ UNCHANGED <<enabled, clock, ctor>>

\* end_record reading the start instant without removing the key
EndBody_NoPop(t, b, k) ==
    /\ IF Truthy(k) /\ k \in DOMAIN start_times
       THEN /\ data' = AppendSample(data, b, loc[t].end_time - start_times[k])
            /\ UNCHANGED start_times
       ELSE UNCHANGED <<start_times, data>>
    /\ Release(t)
    /\ Goto(t, Leave(t))
    /\ Call(t, Back(t))
    /\ UNCHANGED <<enabled, clock, ctor>>

\* lines 81-88: pop the key if it is pending and append the elapsed time to
\* the bucket of the labels of THIS call; otherwise nothing. Then release.
EndBody(t, b, k) ==
    /\ IF Truthy(k) /\ k \in DOMAIN start_times
       THEN /\ start_times' = Pop(start_times, k)
            /\ data' = AppendSample(data, b, loc[t].end_time - start_times[k])
       ELSE UNCHANGED <<start_times, data>>
    /\ Release(t)
    /\ Goto(t, Leave(t))
    /\ Call(t, Back(t))
    /\ UNCHANGED <<enabled, clock, ctor>>

\* a plain end_record(category, tag, key) call; the arguments are not read
\* before line 81, so they are drawn here
ER_Body(t, b, k) ==
    /\ pc[t] = "er_body"
    /\ ~loc[t].scope
    /\ EndBody(t, b, k)

\* ----------------------------------------------------------- record_value
\* line 92
RV_Check(t) ==
    /\ Idle(t)
    /\ Goto(t, IF ~enabled THEN "idle" ELSE "rv_lock")
    /\ Call(t, IF ~enabled THEN Rest(t) ELSE [Rest(t) EXCEPT !.op = "record_value"])
    /\ UNCHANGED <<enabled, data, start_times, lock, clock, ctor>>

\* line 95
RV_Acquire(t) ==
    /\ pc[t] = "rv_lock"
    /\ Acquire(t)
    /\ Goto(t, "rv_body")
    /\ UNCHANGED <<enabled, data, start_times, clock, loc, ctor>>

\* line 96; the arguments are not read before it, so they are drawn here
RV_Body(t, b, v) ==
    /\ pc[t] = "rv_body"
    /\ data' = AppendSample(data, b, v)
    /\ Release(t)
    /\ Goto(t, "idle")
    /\ Call(t, Rest(t))
    /\ UNCHANGED <<enabled, start_times, clock, ctor>>

\* ---------------------------------------------------------- init / deinit
\* init entering its body without the lock
Reset_Acquire_NoLock(t, op) ==
    /\ Idle(t)
    /\ Goto(t, "in_data")
    /\ Call(t, [Rest(t) EXCEPT !.op = op])
    /\ UNCHANGED <<enabled, data, start_times, lock, clock, ctor>>

\* line 47
Reset_Acquire(t, op) ==
    /\ Idle(t)
    /\ Acquire(t)
    /\ Goto(t, "in_data")
    /\ Call(t, [Rest(t) EXCEPT !.op = op])
    /\ UNCHANGED <<enabled, data, start_times, clock, ctor>>

InitOp(t) == Reset_Acquire(t, "init")

\* deinit is `self.init()`
DeinitOp(t) == Reset_Acquire(t, "deinit")

\* line 48
Reset_ClearData(t) ==
    /\ pc[t] = "in_data"
    /\ data' = EmptyMap
    /\ Goto(t, "in_start")
    /\ UNCHANGED <<enabled, start_times, lock, clock, loc, ctor>>

\* init keeping the lock when it returns
Reset_ClearStarts_Hold(t) ==
    /\ pc[t] = "in_start"
    /\ start_times' = EmptyMap
    /\ Goto(t, "idle")
    /\ Call(t, Rest(t))
    /\ UNCHANGED <<enabled, data, lock, clock, ctor>>

\* line 49, and the end of the with block
Reset_ClearStarts(t) ==
    /\ pc[t] = "in_start"
    /\ start_times' = EmptyMap
    /\ Release(t)
    /\ Goto(t, "idle")
    /\ Call(t, Rest(t))
    /\ UNCHANGED <<enabled, data, clock, ctor>>

\* -------------------------------------------------------------- get_stats
\* get_stats copying without the lock
GS_Acquire_NoLock(t) ==
    /\ Idle(t)
    /\ Goto(t, "gs_copy")
    /\ Call(t, [Rest(t) EXCEPT !.op = "get_stats"])
    /\ UNCHANGED <<enabled, data, start_times, lock, clock, ctor>>

\* line 104
GS_Acquire(t) ==
    /\ Idle(t)
    /\ Acquire(t)
    /\ Goto(t, "gs_copy")
    /\ Call(t, [Rest(t) EXCEPT !.op = "get_stats"])
    /\ UNCHANGED <<enabled, data, start_times, clock, ctor>>

\* line 106: the comprehension copies one list (tv[:]) per iteration, in the
\* dict's order (here: the order CHOOSE fixes)
GS_Copy(t) ==
    /\ pc[t] = "gs_copy"
    /\ DOMAIN data \ DOMAIN loc[t].snap # {}
    /\ LET b == CHOOSE x \in DOMAIN data \ DOMAIN loc[t].snap : TRUE
       IN  Call(t, [loc[t] EXCEPT !.snap = Put(loc[t].snap, b, data[b])])
    /\ UNCHANGED <<enabled, data, start_times, lock, clock, pc, ctor>>

\* get_stats computing inside the with block
GS_Release_Hold(t) ==
    /\ pc[t] = "gs_copy"
    /\ DOMAIN data \ DOMAIN loc[t].snap = {}
    /\ Goto(t, "gs_compute")
    /\ UNCHANGED <<enabled, data, start_times, lock, clock, loc, ctor>>

\* the comprehension is exhausted: the with block of line 104 ends
GS_Release(t) ==
    /\ pc[t] = "gs_copy"
    /\ DOMAIN data \ DOMAIN loc[t].snap = {}
    /\ Release(t)
    /\ Goto(t, "gs_compute")
    /\ UNCHANGED <<enabled, data, start_times, clock, loc, ctor>>

\* lines 108-143, on the thread's own snapshot; the category argument is
\* not read before line 110, so it is drawn here
GS_Compute(t, category) ==
    /\ pc[t] = "gs_compute"
    /\ Goto(t, IF loc[t].op = "get_stats" THEN "done" ELSE "gr_format")
    /\ Call(t, [loc[t] EXCEPT !.arg = category,
                              !.ret = GetStatsResult(loc[t].snap, category)])
    /\ UNCHANGED <<enabled, data, start_times, lock, clock, ctor>>

\* -------------------------------------------------------------- PerfTimer
\* lines 172-179: the constructor takes the recorder (PerfStats.get_instance()
\* of a constructed singleton returns it unchanged) and __enter__ calls
\* start_record and keeps the key
PT_Enter(t, b) ==
    /\ Idle(t)
    /\ StartCheck(t, b, [Rest(t) EXCEPT !.scope = TRUE, !.i = loc[t].i + 1])

\* a with PerfTimer(...) statement inside the body of another one, in the
\* same thread (one level of nesting)
PT_EnterInner(t, b) ==
    /\ pc[t] = "pt_body"
    /\ loc[t].outer = <<>>
    /\ StartCheck(t, b, [Rest(t) EXCEPT !.scope = TRUE, !.i = loc[t].i + 1,
                                        !.outer = <<loc[t].b, loc[t].key>>])

\* the body of the with statement raises: the interpreter calls __exit__
\* with the exception
PT_Raise(t) ==
    /\ pc[t] = "pt_body"
    /\ Goto(t, "pt_raised")
    /\ Call(t, [loc[t] EXCEPT !.exc = TRUE])
    /\ UNCHANGED <<enabled, data, start_times, lock, clock, ctor>>

\* line 183: __exit__ calls end_record(self.category, self.tag, self.key),
\* whether the body finished or raised
PT_Exit(t) ==
    /\ pc[t] \in {"pt_body", "pt_raised"}
    /\ EndCheck(t)

PT_ExitBody(t) ==
    /\ pc[t] = "er_body"
    /\ loc[t].scope
    /\ EndBody(t, loc[t].b, loc[t].key)

\* the exception of a scope's body has reached the caller of the with
\* statement, which handles it
Caught(t) ==
    /\ pc[t] = "raised"
    /\ Goto(t, "idle")
    /\ Call(t, Rest(t))
    /\ UNCHANGED <<enabled, data, start_times, lock, clock, ctor>>

\* ------------------------------------------------- the recording protocol
\* threads calling enable, disable, start_record, end_record, record_value,
\* init and deinit in any order and interleaving
Next ==
    \/ Tick
    \/ \E t \in Threads : Return(t)
    \/ \E t \in Threads : Enable(t)
    \/ \E t \in Threads : Disable(t)
    \/ \E t \in Threads, b \in Labels : MayStart(t, b) /\ SR_Check(t, b)
    \/ \E t \in Threads : SR_Acquire(t)
    \/ \E t \in Threads : SR_Store(t)
    \/ \E t \in Threads : MaySubmit /\ ER_Check(t)
    \/ \E t \in Threads : ER_Acquire(t)
    \/ \E t \in Threads, b \in Labels, k \in KeyArgs : ER_Body(t, b, k)
    \/ \E t \in Threads : MaySubmit /\ RV_Check(t)
    \/ \E t \in Threads : RV_Acquire(t)
    \/ \E t \in Threads, b \in Labels, v \in Values : RV_Body(t, b, v)
    \/ \E t \in Threads : InitOp(t)
    \/ \E t \in Threads : DeinitOp(t)
    \/ \E t \in Threads : Reset_ClearData(t)
    \/ \E t \in Threads : Reset_ClearStarts(t)

Spec == Init /\ [][Next]_vars

\* ------------------------------------------------- queries while recording
\* threads calling get_stats, start_record, end_record, record_value, init
\* and deinit in any order and interleaving, within one reading of the clock
NextQuery ==
    \/ \E t \in Threads : Return(t)
    \/ \E t \in Threads, b \in Labels : MayStart(t, b) /\ SR_Check(t, b)
    \/ \E t \in Threads : SR_Acquire(t)
    \/ \E t \in Threads : SR_Store(t)
    \/ \E t \in Threads : MaySubmit /\ ER_Check(t)
    \/ \E t \in Threads : ER_Acquire(t)
    \/ \E t \in Threads, b \in Labels, k \in KeyArgs : ER_Body(t, b, k)
    \/ \E t \in Threads : MaySubmit /\ RV_Check(t)
    \/ \E t \in Threads : RV_Acquire(t)
    \/ \E t \in Threads, b \in Labels, v \in Values : RV_Body(t, b, v)
    \/ \E t \in Threads : InitOp(t)
    \/ \E t \in Threads : DeinitOp(t)
    \/ \E t \in Threads : Reset_ClearData(t)
    \/ \E t \in Threads : Reset_ClearStarts(t)
    \/ \E t \in Threads : GS_Acquire(t)
    \/ \E t \in Threads : GS_Copy(t)
    \/ \E t \in Threads : GS_Release(t)
    \/ \E t \in Threads, c \in Cats \cup {None} : GS_Compute(t, c)

SpecQuery == Init /\ [][NextQuery]_vars

\* ------------------------------------------------ all operations, fairly
\* the keys passed to end_record here: those of one (category, tag), or none
LiveKeys == {FormatKey(ThreadLabel, t, now) : t \in Threads, now \in 0..MaxClock} \cup {None}

\* the steps of thread t inside a call that wait for nothing
Proceed(t) ==
    \/ SR_Store(t)
    \/ \E k \in LiveKeys : ER_Body(t, ThreadLabel, k)
    \/ \E v \in Values : RV_Body(t, ThreadLabel, v)
    \/ Reset_ClearData(t)
    \/ Reset_ClearStarts(t)
    \/ GS_Copy(t)
    \/ GS_Release(t)
    \/ GS_Compute(t, None)

\* the steps of thread t that take the lock inside a call
Take(t) == SR_Acquire(t) \/ ER_Acquire(t) \/ RV_Acquire(t)

\* the steps by which thread t invokes an operation
Invoke(t) ==
    \/ Enable(t)
    \/ Disable(t)
    \/ MayStart(t, ThreadLabel) /\ SR_Check(t, ThreadLabel)
    \/ MaySubmit /\ ER_Check(t)
    \/ MaySubmit /\ RV_Check(t)
    \/ InitOp(t)
    \/ DeinitOp(t)
    \/ GS_Acquire(t)

\* threads calling all eight operations, on one (category, tag), in any
\* order and interleaving, within one reading of the clock
NextLive ==
    \/ \E t \in Threads : Invoke(t)
    \/ \E t \in Threads : Take(t)
    \/ \E t \in Threads : Proceed(t)
    \/ \E t \in Threads : Return(t)

\* what a step inside a call changes: a position, the lock, the shared maps
\* or the part of the snapshot copied so far
progress == <<pc, lock, data, start_times, [t \in Threads |-> DOMAIN loc[t].snap]>>

\* fair scheduling: a thread that can go on does, and a thread waiting for
\* the lock gets it if the lock is free again and again
SpecLive ==
    /\ Init
    /\ [][NextLive]_vars
    /\ \A t \in Threads : WF_progress(Proceed(t)) /\ SF_progress(Take(t))

\* ------------------------------------------- the workers of the thread test
\* test_perf_stats.py lines 53-56: `for _ in range(n): with PerfTimer(...)`
W_Enter(t) ==
    /\ Idle(t)
    /\ loc[t].i < ScopesPerThread
    /\ StartCheck(t, ThreadLabel, [Rest(t) EXCEPT !.scope = TRUE, !.i = loc[t].i + 1])

\* every worker has left its loop (the joins of lines 61-62 return)
Joined == \A t \in Threads : pc[t] \in {"idle", "gs_copy", "gs_compute", "done"}
                             /\ loc[t].i = ScopesPerThread

\* test_perf_stats.py line 64: get_stats("ThreadCat") once the workers are joined
W_GetStats(t) ==
    /\ Joined
    /\ GS_Acquire(t)

NextTimers ==
    \/ Tick
    \/ \E t \in Threads : W_Enter(t)
    \/ \E t \in Threads : SR_Acquire(t)
    \/ \E t \in Threads : SR_Store(t)
    \/ \E t \in Threads : PT_Exit(t)
    \/ \E t \in Threads : ER_Acquire(t)
    \/ \E t \in Threads : PT_ExitBody(t)
    \/ \E t \in Threads : W_GetStats(t)
    \/ \E t \in Threads : GS_Copy(t)
    \/ \E t \in Threads : GS_Release(t)
    \/ \E t \in Threads : GS_Compute(t, ThreadLabel[1])
    \/ \E t \in Threads : Return(t)

SpecTimers == Init /\ [][NextTimers]_vars

\* ------------------------------------------------------ PerfTimer scopes
\* elapsed_seconds is a float the caller chooses
AnyValues == {-1, 0, 2}

\* threads that run with PerfTimer(...) statements, one after the other or
\* nested, whose bodies finish or raise, and call record_value; the recorder
\* stays enabled and is never reset
NextScopes ==
    \/ Tick
    \/ \E t \in Threads, b \in Labels : MayEnter /\ PT_Enter(t, b)
    \/ \E t \in Threads, b \in Labels : MayEnter /\ PT_EnterInner(t, b)
    \/ \E t \in Threads : PT_Raise(t)
    \/ \E t \in Threads : SR_Acquire(t)
    \/ \E t \in Threads : SR_Store(t)
    \/ \E t \in Threads : PT_Exit(t)
    \/ \E t \in Threads : ER_Acquire(t)
    \/ \E t \in Threads : PT_ExitBody(t)
    \/ \E t \in Threads : Caught(t)
    \/ \E t \in Threads : MaySubmit /\ RV_Check(t)
    \/ \E t \in Threads : RV_Acquire(t)
    \/ \E t \in Threads, b \in Labels, v \in AnyValues : RV_Body(t, b, v)

SpecScopes == Init /\ [][NextScopes]_vars

\* ------------------------------------------- the statistics of any bucket
SeqsUpTo(S, n) == UNION {[1..m -> S] : m \in 1..n}

\* a recorder holding one or two buckets of recorded samples
InitStats ==
    /\ enabled = TRUE
    /\ \E s \in SeqsUpTo(StatValues, MaxLen), r \in {<<>>, <<1>>, <<3, 0, 3>>} :
          data = IF r = <<>> THEN (ThreadLabel :> s)
                 ELSE (ThreadLabel :> s) @@ (<<"", "y">> :> r)
    /\ start_times = EmptyMap
    /\ lock = None
    /\ clock = 0
    /\ pc = [t \in Threads |-> "idle"]
    /\ loc = [t \in Threads |-> Frame]
    /\ instance = "obj"
    /\ initialized = "true"
    /\ cls_lock = None

NextStats ==
    \/ \E t \in Threads : GS_Acquire(t)
    \/ \E t \in Threads : GS_Copy(t)
    \/ \E t \in Threads : GS_Release(t)
    \/ \E t \in Threads, c \in Cats \cup {None} : GS_Compute(t, c)
    \/ \E t \in Threads : Return(t)

SpecStats == InitStats /\ [][NextStats]_vars

\* ------------------------------------------------------------- the report
\* A sample of v ticks is v / TicksPerSecond seconds.
LabelWidth == 15        \* {cat:<15}, {tag:<15}
CountWidth == 6         \* {stat['count']:<6}
NumWidth == 8           \* {...:<8.3f}
Decimals == 3           \* {...:<8.3f}
MsPerSecond == 1000     \* stat[...]*1000
BorderLen == 80         \* "="*80, "-" * 80

RECURSIVE Repeat(_, _)
Repeat(c, n) == IF n = 0 THEN "" ELSE c \o Repeat(c, n - 1)

RECURSIVE Pow10(_)
Pow10(n) == IF n = 0 THEN 1 ELSE 10 * Pow10(n - 1)

\* format spec `<w`: the text, then spaces up to width w; never truncated
Ljust(s, w) == IF Len(s) >= w THEN s ELSE s \o Repeat(" ", w - Len(s))

\* the integer nearest to n / d (n >= 0, d > 0)
RoundDiv(n, d) == (2 * n + d) \div (2 * d)

\* digits of r (0 <= r < 10^w) with leading zeros
ZeroPad(r, w) == Repeat("0", w - Len(ToString(r))) \o ToString(r)

\* a fraction of ticks, times 1000 in seconds, rounded to Decimals places:
\* the number of 10^-Decimals milliseconds
Thousandths(x) == RoundDiv(Abs(x[1]) * MsPerSecond * Pow10(Decimals), x[2] * TicksPerSecond)

\* format spec `.3f` of seconds * 1000
FormatMs(x) ==
    LET q == Thousandths(x)
    IN  (IF x[1] < 0 THEN "-" ELSE "") \o ToString(q \div Pow10(Decimals))
            \o "." \o ZeroPad(q % Pow10(Decimals), Decimals)

RECURSIVE JoinWith(_, _)
JoinWith(ss, sep) ==
    IF ss = <<>> THEN ""
    ELSE IF Len(ss) = 1 THEN ss[1]
    ELSE ss[1] \o sep \o JoinWith(Tail(ss), sep)

\* the order in which a dict yields its keys (here: the order CHOOSE fixes)
RECURSIVE KeyOrder(_)
KeyOrder(S) ==
    IF S = {} THEN <<>>
    ELSE LET k == CHOOSE x \in S : TRUE IN <<k>> \o KeyOrder(S \ {k})

\* a row with the raw mean in the Avg column
ReportRow_Raw(cat, tag, stat) ==
    JoinWith(<<Ljust(cat, LabelWidth), Ljust(tag, LabelWidth),
               Ljust(ToString(stat.count), CountWidth),
               Ljust(FormatMs(stat.avg_raw), NumWidth),
               Ljust(FormatMs(<<stat.min, 1>>), NumWidth),
               Ljust(FormatMs(<<stat.max, 1>>), NumWidth)>>, " | ")

\* line 155
ReportRow(cat, tag, stat) ==
    JoinWith(<<Ljust(cat, LabelWidth), Ljust(tag, LabelWidth),
               Ljust(ToString(stat.count), CountWidth),
               Ljust(FormatMs(stat.avg_filtered), NumWidth),
               Ljust(FormatMs(<<stat.min, 1>>), NumWidth),
               Ljust(FormatMs(<<stat.max, 1>>), NumWidth)>>, " | ")

\* line 150
ReportHeader ==
    JoinWith(<<Ljust("Category", LabelWidth), Ljust("Tag", LabelWidth),
               Ljust("Count", CountWidth), Ljust("Avg(ms)", NumWidth),
               Ljust("Min(ms)", NumWidth), Ljust("Max(ms)", NumWidth)>>, " | ")

RECURSIVE TagRows(_, _, _)
TagRows(cat, tags, order) ==
    IF order = <<>> THEN <<>>
    ELSE <<ReportRow(cat, Head(order), tags[Head(order)])>> \o TagRows(cat, tags, Tail(order))

RECURSIVE CatRows(_, _)
CatRows(stats, order) ==
    IF order = <<>> THEN <<>>
    ELSE TagRows(Head(order), stats[Head(order)], KeyOrder(DOMAIN stats[Head(order)]))
             \o CatRows(stats, Tail(order))

\* lines 148-158, for the mapping get_stats() returned
GenerateReport(stats) ==
    JoinWith(<<Repeat("=", BorderLen), ReportHeader, Repeat("-", BorderLen)>>
                 \o CatRows(stats, KeyOrder(DOMAIN stats))
                 \o <<Repeat("=", BorderLen)>>, "\n")

\* _generate_report, called directly or by print_stats or save_stats
ReportOps == {"_generate_report", "print_stats", "save_stats"}

\* line 147 calls get_stats(), whose first statement is line 104
GR_Acquire(t, op) ==
    /\ Idle(t)
    /\ Acquire(t)
    /\ Goto(t, "gs_copy")
    /\ Call(t, [Rest(t) EXCEPT !.op = op])
    /\ UNCHANGED <<enabled, data, start_times, clock, ctor>>

\* lines 148-158, then what the caller does with the text: _generate_report
\* returns it, save_stats writes it to the file (line 168), print_stats
\* prints it between two line breaks (line 162). The frame's text is the
\* text returned or written.
GR_Format(t) ==
    /\ pc[t] = "gr_format"
    /\ Goto(t, "done")
    /\ LET report == GenerateReport(loc[t].ret)
       IN  Call(t, [loc[t] EXCEPT !.text = IF loc[t].op = "print_stats"
                                          THEN "\n" \o report \o "\n"
                                          ELSE report])
    /\ UNCHANGED <<enabled, data, start_times, lock, clock, ctor>>

\* reports of a recorder holding one or two buckets
NextReport ==
    \/ \E t \in Threads, op \in ReportOps : GR_Acquire(t, op)
    \/ \E t \in Threads : GS_Copy(t)
    \/ \E t \in Threads : GS_Release(t)
    \/ \E t \in Threads : GS_Compute(t, None)
    \/ \E t \in Threads : GR_Format(t)
    \/ \E t \in Threads : Return(t)

SpecReport == InitStats /\ [][NextReport]_vars

\* ------------------------------------------------ obtaining the singleton
\* PerfStats() is __new__ then __init__ on what it returns; get_instance()
\* is `return cls()` (line 35).

\* line 17: the unlocked test of cls._instance; line 22 returns it if set
New_Check(t) ==
    /\ pc[t] = "idle"
    /\ loc[t].self = None
    /\ Goto(t, IF instance = None THEN "new_lock" ELSE "init_check")
    /\ UNCHANGED <<enabled, data, start_times, lock, clock, loc, ctor>>

\* line 18
New_Acquire(t) ==
    /\ pc[t] = "new_lock"
    /\ cls_lock = None
    /\ cls_lock' = t
    /\ Goto(t, "new_create")
    /\ UNCHANGED <<enabled, data, start_times, lock, clock, loc, instance, initialized>>

\* lines 19-20: the second test, under the class lock, and the creation
New_Create(t) ==
    /\ pc[t] = "new_create"
    /\ IF instance = None
       THEN /\ instance' = "obj"
            /\ Goto(t, "new_flag")
            /\ UNCHANGED cls_lock
       ELSE /\ cls_lock' = None
            /\ Goto(t, "init_check")
            /\ UNCHANGED instance
    /\ UNCHANGED <<enabled, data, start_times, lock, clock, loc, initialized>>

\* line 21, and the end of the with block
New_Flag(t) ==
    /\ pc[t] = "new_flag"
    /\ initialized' = "false"
    /\ cls_lock' = None
    /\ Goto(t, "init_check")
    /\ UNCHANGED <<enabled, data, start_times, lock, clock, loc, instance>>

\* lines 25-26: __init__ returns at once on an initialized object; reading
\* _initialized before line 21 has set it raises AttributeError
Init_Check(t) ==
    /\ pc[t] = "init_check"
    /\ IF initialized = "unset"
       THEN Goto(t, "error") /\ UNCHANGED loc
       ELSE IF initialized = "true"
       THEN Goto(t, "idle") /\ Call(t, [loc[t] EXCEPT !.self = instance])
       ELSE Goto(t, "init_data") /\ UNCHANGED loc
    /\ UNCHANGED <<enabled, data, start_times, lock, clock, ctor>>

\* line 27: a new, empty dict replaces whatever self._data was
Init_Data(t) ==
    /\ pc[t] = "init_data"
    /\ data' = EmptyMap
    /\ Goto(t, "init_starts")
    /\ UNCHANGED <<enabled, start_times, lock, clock, loc, ctor>>

\* line 28
Init_Starts(t) ==
    /\ pc[t] = "init_starts"
    /\ start_times' = EmptyMap
    /\ Goto(t, "init_lock")
    /\ UNCHANGED <<enabled, data, lock, clock, loc, ctor>>

\* line 29: a new lock object, which nobody holds
Init_Lock(t) ==
    /\ pc[t] = "init_lock"
    /\ lock' = None
    /\ Goto(t, "init_enabled")
    /\ UNCHANGED <<enabled, data, start_times, clock, loc, ctor>>

\* line 30
Init_Enabled(t) ==
    /\ pc[t] = "init_enabled"
    /\ enabled' = TRUE
    /\ Goto(t, "init_flag")
    /\ UNCHANGED <<data, start_times, lock, clock, loc, ctor>>

\* line 31; PerfStats() returns the object
Init_Flag(t) ==
    /\ pc[t] = "init_flag"
    /\ initialized' = "true"
    /\ Goto(t, "idle")
    /\ Call(t, [loc[t] EXCEPT !.self = instance])
    /\ UNCHANGED <<enabled, data, start_times, lock, clock, instance, cls_lock>>

\* the process before the first PerfStats(): no object, no handles. The
\* attributes of the object to come are written as their first values.
InitNew ==
    /\ enabled = TRUE
    /\ data = EmptyMap
    /\ start_times = EmptyMap
    /\ lock = None
    /\ clock = 0
    /\ pc = [t \in Threads |-> "idle"]
    /\ loc = [t \in Threads |-> [Frame EXCEPT !.self = None]]
    /\ instance = None
    /\ initialized = "unset"
    /\ cls_lock = None

\* threads that each obtain a handle and then use the recorder
NextNew ==
    \/ \E t \in Threads : New_Check(t)
    \/ \E t \in Threads : New_Acquire(t)
    \/ \E t \in Threads : New_Create(t)
    \/ \E t \in Threads : New_Flag(t)
    \/ \E t \in Threads : Init_Check(t)
    \/ \E t \in Threads : Init_Data(t)
    \/ \E t \in Threads : Init_Starts(t)
    \/ \E t \in Threads : Init_Lock(t)
    \/ \E t \in Threads : Init_Enabled(t)
    \/ \E t \in Threads : Init_Flag(t)
    \/ \E t \in Threads : Disable(t)
    \/ \E t \in Threads, b \in Labels : MayStart(t, b) /\ SR_Check(t, b)
    \/ \E t \in Threads : SR_Acquire(t)
    \/ \E t \in Threads : SR_Store(t)
    \/ \E t \in Threads : Return(t)
    \/ \E t \in Threads : MaySubmit /\ RV_Check(t)
    \/ \E t \in Threads : RV_Acquire(t)
    \/ \E t \in Threads, b \in Labels, v \in Values : RV_Body(t, b, v)

SpecNew == InitNew /\ [][NextNew]_vars

\* ======================================================================
\* The claims
\* ======================================================================
NThreads == Cardinality(Threads)

\* a thread's get_stats call has returned (its frame holds the snapshot it
\* took, the category it was given and the mapping it returned)
Returned(t) == pc[t] = "done" /\ loc[t].op = "get_stats"

\* C1: N threads that each run M PerfTimer scopes on one (category, tag),
\* the recorder enabled and never reset: in every interleaving the count
\* get_stats reports once all threads have finished is exactly N*M.
C1_ExactCount ==
    \A t \in Threads :
        Returned(t) =>
            /\ ThreadLabel[2] \in DOMAIN loc[t].ret
            /\ loc[t].ret[ThreadLabel[2]].count = NThreads * ScopesPerThread

C1_Witness ==
    \E t \in Threads :
        /\ Returned(t)
        /\ ThreadLabel[2] \in DOMAIN loc[t].ret
        /\ loc[t].ret[ThreadLabel[2]].count = NThreads * ScopesPerThread
        /\ Len(data[ThreadLabel]) = NThreads * ScopesPerThread

\* C2: a pending start is consumed exactly once. Of the end_record calls that
\* carry a token, sequential or concurrent, the one that finds it pending
\* removes it and appends exactly one sample; every other one appends
\* nothing and removes nothing; and a token that is not pending becomes
\* pending again only by a start_record call storing it.
C2_ConsumedOnce ==
    /\ [][\A t \in Threads, b \in Labels, k \in KeyArgs :
            ER_Body(t, b, k) =>
                IF Truthy(k) /\ k \in DOMAIN start_times
                THEN /\ start_times' = Pop(start_times, k)
                     /\ TotalSamples(data') = TotalSamples(data) + 1
                     /\ Len(data'[b]) = Len(Get(data, b, <<>>)) + 1
                ELSE UNCHANGED <<data, start_times>>]_vars
    /\ [][\A k \in DOMAIN start_times' \ DOMAIN start_times :
            \E t \in Threads : pc[t] = "sr_body" /\ loc[t].key = k /\ pc'[t] = "done"]_vars

\* a token has been consumed (a bucket holds an elapsed time, which is never
\* a value of record_value) and is pending no more, while a second
\* end_record call is at line 81
C2_Witness ==
    \E t \in Threads :
        /\ pc[t] = "er_body"
        /\ start_times = EmptyMap
        /\ \E b \in DOMAIN data : \E j \in DOMAIN data[b] : data[b][j] \notin Values

\* the (category, tag) labels a key was built from
KeyLabels(k) == {b \in Labels : \E t \in Threads, now \in 0..MaxClock : k = FormatKey(b, t, now)}

\* C3: every start_record call made while enabled returns a token different
\* from that of every other call, so that a start never overwrites the
\* stored start instant of a start that is still pending: the key a call
\* stores is never a key of PendingStarts already.
C3_NoOverwrite ==
    [][\A t \in Threads :
          (pc[t] = "sr_body" /\ pc'[t] # "sr_body") => loc[t].key \notin DOMAIN start_times]_vars

\* C4: end_record(c2, t2, token) with a pending token that start_record built
\* for other labels (c1, t1) is a silent no-op: no sample is appended and
\* PendingStarts is unchanged.
C4_MismatchNoOp ==
    [][\A t \in Threads, b \in Labels, k \in AllKeys :
          (ER_Body(t, b, k) /\ k \in DOMAIN start_times /\ b \notin KeyLabels(k))
              => UNCHANGED <<data, start_times>>]_vars

\* the statistics one bucket's entry reports describe the list s
Describes(st, s) ==
    /\ st.count = Len(s)
    /\ st.min \in {s[j] : j \in DOMAIN s} /\ \A j \in DOMAIN s : st.min <= s[j]
    /\ st.max \in {s[j] : j \in DOMAIN s} /\ \A j \in DOMAIN s : st.max >= s[j]
    /\ st.avg_raw = Div(SumSeq(s), Len(s))

\* the entries of a get_stats result, as (category, tag) -> statistics
Entries(ret, category) ==
    IF Truthy(category)
    THEN [b \in {category} \X DOMAIN ret |-> ret[b[2]]]
    ELSE [b \in UNION {{c} \X DOMAIN ret[c] : c \in DOMAIN ret} |-> ret[b[1]][b[2]]]

\* C5: a get_stats call that runs concurrently with record_value, end_record
\* and init reports the buckets as they were at one single instant of the
\* call: while it copies, every list it has copied equals the live bucket
\* (so the finished copy equals the buckets at the instant the lock is
\* released), and every entry it returns describes, in count, extrema and
\* raw mean, one whole list of that copy.
C5_SnapshotConsistent ==
    \A t \in Threads :
        /\ pc[t] = "gs_copy" =>
              \A b \in DOMAIN loc[t].snap : b \in DOMAIN data /\ loc[t].snap[b] = data[b]
        /\ Returned(t) =>
              LET e == Entries(loc[t].ret, loc[t].arg) IN
              /\ DOMAIN e \subseteq DOMAIN loc[t].snap
              /\ \A b \in DOMAIN loc[t].snap :
                    (~Truthy(loc[t].arg) \/ b[1] = loc[t].arg) => b \in DOMAIN e
              /\ \A b \in DOMAIN e : Describes(e[b], loc[t].snap[b])

\* get_stats has returned a non-empty snapshot that the buckets have moved on from
C5_Witness ==
    \E t \in Threads :
        /\ Returned(t)
        /\ loc[t].snap # EmptyMap
        /\ loc[t].snap # data
        /\ \E u \in Threads : pc[u] \in {"rv_lock", "er_lock", "in_data"}

\* C6: while the recorder is disabled (disable() has returned, enable() has
\* not been called since), a start_record, end_record or record_value call
\* returns at its first statement: start_record returns None, and buckets,
\* PendingStarts, the flag and the lock are unchanged; no error is raised.
C6_DisabledNoOp ==
    [][~enabled =>
          /\ \A t \in Threads, b \in Labels :
                SR_Check(t, b) => /\ pc'[t] = "done"
                                  /\ loc'[t].token = None
                                  /\ UNCHANGED <<data, start_times, enabled, lock>>
          /\ \A t \in Threads :
                (ER_Check(t) \/ RV_Check(t)) => /\ pc'[t] = "idle"
                                                 /\ UNCHANGED <<data, start_times, enabled, lock>>]_vars

\* start_record has returned None while disabled, a token issued before the
\* disable still pending
C6_Witness ==
    \E t \in Threads :
        /\ ~enabled
        /\ pc[t] = "done" /\ loc[t].op = "start_record" /\ loc[t].token = None
        /\ start_times # EmptyMap

\* the positions at which a thread is inside a `with self._lock:` block
LockedPcs == {"sr_body", "er_body", "rv_body", "gs_copy", "in_data", "in_start"}

\* C7: init() and deinit() are the same operation, and it empties all
\* buckets and all pending starts in one step that is atomic for every other
\* operation: it runs both clears holding the lock, with no other thread
\* inside a locked block, and at the instant it ends buckets and pending
\* starts are both empty, so get_stats (of any category) is empty and no
\* token issued before is pending; it ends without error, lock released.
C7_AtomicReset ==
    /\ [](\A t \in Threads :
            pc[t] \in {"in_data", "in_start"} =>
                /\ loc[t].op \in {"init", "deinit"}
                /\ lock = t
                /\ \A u \in Threads \ {t} : pc[u] \notin LockedPcs)
    /\ [][\A t \in Threads :
            /\ (InitOp(t) \/ DeinitOp(t)) =>
                  /\ pc'[t] = "in_data" /\ lock = None /\ lock' = t
                  /\ UNCHANGED <<data, start_times, enabled>>
            /\ (pc[t] = "in_start" /\ pc'[t] # "in_start") =>
                  /\ pc'[t] = "idle"
                  /\ data' = EmptyMap /\ start_times' = EmptyMap /\ lock' = None
                  /\ \A c \in Cats \cup {None} : GetStatsResult(data', c) = EmptyMap
                  /\ \A k \in KeyArgs : k \notin DOMAIN start_times']_vars

\* a deinit has cleared the buckets and not yet the pending starts, while
\* another thread waits for the lock
C7_Witness ==
    \E t \in Threads, u \in Threads :
        /\ pc[t] = "in_start" /\ loc[t].op = "deinit"
        /\ data = EmptyMap /\ start_times # EmptyMap
        /\ pc[u] \in {"er_lock", "rv_lock", "sr_lock"}

\* the list s without the first occurrence of v
RemoveOne(s, v) ==
    LET i == CHOOSE j \in DOMAIN s : s[j] = v /\ \A m \in 1..(j - 1) : s[m] # v
    IN  SubSeq(s, 1, i - 1) \o SubSeq(s, i + 1, Len(s))

Mean(s) == Div(SumSeq(s), Len(s))

\* C8: for every non-empty bucket get_stats reports count = number of
\* samples, min and max = the extrema, avg_raw = sum/count, and avg_filtered =
\* the mean of the samples left after removing exactly one occurrence of the
\* minimum and exactly one of the maximum when count > 2 (ties included),
\* avg_raw when count is 1 or 2.
C8_TrimmedMean ==
    \A t \in Threads :
        Returned(t) =>
            LET e == Entries(loc[t].ret, loc[t].arg) IN
            /\ \A b \in DOMAIN data :
                  (~Truthy(loc[t].arg) \/ b[1] = loc[t].arg) => b \in DOMAIN e
            /\ \A b \in DOMAIN e :
                  LET s == data[b] IN
                  /\ Describes(e[b], s)
                  /\ e[b].avg_filtered =
                        IF Len(s) > 2
                        THEN Mean(RemoveOne(RemoveOne(s, e[b].min), e[b].max))
                        ELSE e[b].avg_raw

\* the statistics of [0, 3, 3, 1] (the maximum tied) and of [3, 0, 3]: the
\* trimmed means are 2 and 3
C8_Witness ==
    \E t \in Threads :
        /\ Returned(t) /\ loc[t].arg = None
        /\ data = (ThreadLabel :> <<0, 3, 3, 1>>) @@ (<<"", "y">> :> <<3, 0, 3>>)
        /\ loc[t].ret["A"]["x"].avg_filtered = <<2, 1>>
        /\ loc[t].ret["A"]["x"].avg_raw = <<7, 4>>
        /\ loc[t].ret[""]["y"].avg_filtered = <<3, 1>>

\* the positions inside PerfStats() (__new__ and __init__)
CtorPcs == {"new_lock", "new_create", "new_flag", "init_check", "init_data",
            "init_starts", "init_lock", "init_enabled", "init_flag"}

\* C9: obtaining a handle (PerfStats() or get_instance(), from any thread,
\* first access or not) never clears or replaces the samples, the pending
\* starts, the enabled flag or the lock that already exist.
C9_HandleKeepsState ==
    [][(\E t \in Threads : pc[t] \in CtorPcs /\ pc'[t] # pc[t])
          => UNCHANGED <<data, start_times, enabled, lock>>]_vars

C11_ToggleFrame ==
    [][(enabled' # enabled \/ \E t \in Threads : Enable(t) \/ Disable(t)) =>
          /\ UNCHANGED <<data, start_times, lock>>
          /\ \A k \in DOMAIN start_times :
                k \in DOMAIN start_times' /\ start_times'[k] = start_times[k]
          /\ \A c \in Cats \cup {None} :
                GetStatsResult(data', c) = GetStatsResult(data, c)]_vars

\* the recorder is enabled again after a disabled window (a start_record
\* call returned None in it); a token and a sample are still there and an
\* end_record call is at line 81
C11_Witness ==
    \E t \in Threads, u \in Threads :
        /\ enabled
        /\ pc[u] = "done" /\ loc[u].op = "start_record" /\ loc[u].token = None
        /\ pc[t] = "er_body"
        /\ start_times # EmptyMap
        /\ data # EmptyMap

\* C12: get_stats(c), for a category c a caller can record under (the empty
\* string included, recorded or not), returns exactly the mapping from the
\* tags of c's non-empty buckets to their statistics: nothing of another
\* category, the empty mapping when c has no data; and no step of a
\* get_stats call changes the buckets or the pending starts.
C12_CategoryResult ==
    /\ [](\A t \in Threads :
            (Returned(t) /\ loc[t].arg \in Cats) =>
                /\ DOMAIN loc[t].ret = SnapTags(loc[t].snap, loc[t].arg)
                /\ \A g \in DOMAIN loc[t].ret :
                      loc[t].ret[g] = BucketStats(loc[t].snap[<<loc[t].arg, g>>]))
    /\ [][\A t \in Threads :
            (pc[t] \in {"gs_copy", "gs_compute"}
                /\ (pc'[t] # pc[t] \/ DOMAIN loc'[t].snap # DOMAIN loc[t].snap))
                => UNCHANGED <<data, start_times>>]_vars

\* C13: a PerfTimer scope calls start_record on entry and end_record with
\* the token it kept on every exit. With the recorder enabled throughout and
\* never reset, the end of every scope's __exit__ appends exactly one sample
\* to the scope's (category, tag) bucket, whether the body finished or
\* raised, and an exception of the body goes on to the caller.
C13_ScopeRecordsOnce ==
    [][\A t \in Threads :
          (pc[t] = "er_body" /\ loc[t].scope /\ pc'[t] # "er_body") =>
              /\ Len(Get(data', loc[t].b, <<>>)) = Len(Get(data, loc[t].b, <<>>)) + 1
              /\ TotalSamples(data') = TotalSamples(data) + 1
              /\ loc[t].exc <=> pc'[t] \in {"raised", "pt_raised"}]_vars

\* a report call has returned: its frame holds the snapshot get_stats took
\* and the text returned or written
Reported(t) == pc[t] = "done" /\ loc[t].op \in ReportOps

\* the orders in which the elements of S can be listed
Perms(S) == {f \in [1..Cardinality(S) -> S] : \A i, j \in DOMAIN f : f[i] = f[j] => i = j}

\* the mean of s without one minimum and one maximum, of s if it is too short
TrimmedMean(s) ==
    IF Len(s) > 2 THEN Mean(RemoveOne(RemoveOne(s, MinOf(s)), MaxOf(s))) ELSE Mean(s)

\* q thousandths of a millisecond is x ticks (x >= 0) to three decimals
Nearest(q, x) ==
    2 * Abs(x[1] * 1000 * 1000 - q * x[2] * TicksPerSecond) <= x[2] * TicksPerSecond

\* the row of bucket b holding the samples s: labels, count, and trimmed
\* mean, minimum and maximum in milliseconds
ExpectedRow(b, s) ==
    Ljust(b[1], 15) \o " | " \o Ljust(b[2], 15) \o " | " \o Ljust(ToString(Len(s)), 6)
        \o " | " \o Ljust(FormatMs(TrimmedMean(s)), 8)
        \o " | " \o Ljust(FormatMs(<<MinOf(s), 1>>), 8)
        \o " | " \o Ljust(FormatMs(<<MaxOf(s), 1>>), 8)

\* C14: the report of _generate_report, which save_stats writes as it is and
\* print_stats prints between two line breaks, is a border line, the header
\* and a line of dashes, then exactly one row per (category, tag) bucket
\* holding at least one sample, in some order, then a closing border line;
\* a row carries the category and the tag verbatim (padded, never cut), the
\* count, and in milliseconds with three decimals (seconds * 1000, rounded
\* to the nearest) the trimmed mean (not the raw mean), the min and the max.
C14_ReportRows ==
    \A t \in Threads :
        Reported(t) =>
            LET snap == loc[t].snap
                bs == {b \in DOMAIN snap : snap[b] # <<>>}
                top == "================================================================================\n"
                       \o "Category        | Tag             | Count  | Avg(ms)  | Min(ms)  | Max(ms) \n"
                       \o "--------------------------------------------------------------------------------\n"
                bottom == "================================================================================"
                text(f) == top \o JoinWith([i \in DOMAIN f |-> ExpectedRow(f[i], snap[f[i]]) \o "\n"], "")
                               \o bottom
            IN  /\ \E f \in Perms(bs) :
                      loc[t].text = IF loc[t].op = "print_stats" THEN "\n" \o text(f) \o "\n"
                                   ELSE text(f)
                /\ \A b \in bs :
                      /\ Nearest(Thousandths(TrimmedMean(snap[b])), TrimmedMean(snap[b]))
                      /\ Nearest(Thousandths(<<MinOf(snap[b]), 1>>), <<MinOf(snap[b]), 1>>)
                      /\ Nearest(Thousandths(<<MaxOf(snap[b]), 1>>), <<MaxOf(snap[b]), 1>>)

\* save_stats has written the report of one bucket of 0, 0.375, 0.375 and
\* 0.125 seconds: trimmed mean 250 ms (the raw mean is 218.75 ms)
C14_Witness ==
    \E t \in Threads :
        /\ Reported(t) /\ loc[t].op = "save_stats"
        /\ loc[t].snap = (ThreadLabel :> <<0, 3, 3, 1>>)
        /\ TicksPerSecond = 8
        /\ loc[t].text =
              "================================================================================\n"
              \o "Category        | Tag             | Count  | Avg(ms)  | Min(ms)  | Max(ms) \n"
              \o "--------------------------------------------------------------------------------\n"
              \o "A               | x               | 4      | 250.000  | 0.000    | 375.000 \n"
              \o "================================================================================"

\* C15: every step that changes the buckets, the pending starts or the
\* enabled flag is taken by the thread that holds the recorder's lock, every
\* snapshot copy is made holding it, and at most one thread is inside a
\* locked block at any time.
C15_LockDiscipline ==
    /\ [][(data' # data \/ start_times' # start_times \/ enabled' # enabled)
             => (lock \in Threads /\ pc'[lock] # pc[lock])]_vars
    /\ [](\A t \in Threads : pc[t] = "gs_copy" => lock = t)
    /\ [](\A t \in Threads, u \in Threads :
             (pc[t] \in LockedPcs /\ pc[u] \in LockedPcs) => t = u)

\* C16: from the moment disable() has returned until enable() is called, no
\* step of start_record, end_record or record_value, of any thread and also
\* of a call that had begun before the disable(), appends a sample or adds
\* or removes a pending start.
C16_DisabledWindow ==
    [][\A t \in Threads :
          (~enabled /\ pc[t] \in {"sr_body", "er_body", "rv_body"} /\ pc'[t] # pc[t])
              => UNCHANGED <<data, start_times>>]_vars

\* the positions at which a thread waits for the recorder's lock
WaitPcs == {"sr_lock", "er_lock", "rv_lock"}

C18_ComputeUnlocked ==
    \A t \in Threads :
        pc[t] = "gs_compute" =>
            /\ lock # t
            /\ lock = None \/ (lock \in Threads \ {t} /\ pc[lock] \in LockedPcs)
            /\ \A u \in Threads \ {t} :
                  (pc[u] \in WaitPcs /\ lock = None) => ENABLED Take(u)

\* while one thread computes, another has taken the lock, is appending, and
\* the buckets have already moved on from the snapshot
C18_Witness ==
    \E t \in Threads, u \in Threads :
        /\ pc[t] = "gs_compute"
        /\ pc[u] = "rv_body" /\ lock = u
        /\ loc[t].snap # data

\* C19: every sample in every bucket is a duration >= 0, after any calls of
\* start_record, end_record (here: PerfTimer scopes on a monotonic clock)
\* and record_value with any value the caller passes.
C19_NonNegative ==
    \A b \in DOMAIN data : \A j \in DOMAIN data[b] : data[b][j] >= 0

\* the step adds exactly one sample, at the end of exactly one bucket
OneAppended ==
    \E b \in Labels :
        /\ Len(Get(data', b, <<>>)) = Len(Get(data, b, <<>>)) + 1
        /\ SubSeq(data'[b], 1, Len(data'[b]) - 1) = Get(data, b, <<>>)
        /\ DOMAIN data' = DOMAIN data \cup {b}
        /\ \A c \in DOMAIN data \ {b} : data'[c] = data[c]

\* C20: between resets a bucket only grows at its end. In every step other
\* than the clearing of init/deinit each bucket is still there and its old
\* samples are a prefix of its new ones; the append of record_value, and the
\* end_record step that consumes a token, add exactly one sample to exactly
\* one bucket.
C20_AppendOnly ==
    [][/\ (~ \E t \in Threads : pc[t] = "in_data" /\ pc'[t] # pc[t]) =>
             \A b \in DOMAIN data :
                 /\ b \in DOMAIN data'
                 /\ Len(data'[b]) >= Len(data[b])
                 /\ SubSeq(data'[b], 1, Len(data[b])) = data[b]
       /\ \A t \in Threads :
             (pc[t] = "rv_body" /\ pc'[t] # pc[t]) => OneAppended
       /\ \A t \in Threads :
             (pc[t] = "er_body" /\ pc'[t] # pc[t] /\ start_times' # start_times) => OneAppended]_vars

\* a bucket holds an elapsed time and, after it, a value of record_value
C20_Witness ==
    \E b \in DOMAIN data : data[b] = <<0, 2>>

====
